---------------------------- MODULE Spec2Model ----------------------------
(***************************************************************************)
(* Kegelbuch: the ledger of bowling evenings.                              *)
(*                                                                         *)
(* State: the React state of App (config, kegelabende, currentAbend,       *)
(* snackbar, newPenalty, savedPlayers), the LocalStorage entries written   *)
(* by storageService and the file of the last export.  Amounts are integers in cents (0.5 EUR = 50); text     *)
(* typed by the user is a sequence of one-character strings, so that       *)
(* parseInt, parseFloat and the id derivation are computed character by    *)
(* character as the JavaScript does.                                       *)
(***************************************************************************)
EXTENDS Integers, Sequences, FiniteSets, TLC

VARIABLES
    config,        \* App state `config`
    newPenalty,    \* App state `newPenalty` (the "new penalty" form)
    snackbar,      \* App state `snackbar`
    kegelabende,   \* App state `kegelabende`
    currentAbend,  \* App state `currentAbend` (Null when none is selected)
    storage,       \* LocalStorage: kegelbuch_config, kegelbuch_kegelabende,
                   \* kegelbuch_spieler
    nextId,        \* source of fresh ids (crypto.randomUUID never repeats)
    lastEvent,     \* the handler that ran last, with its arguments
    opsLeft,       \* remaining user events per kind (bounds the exploration)
    savedPlayers,  \* App state `savedPlayers`
    download,      \* the text of the file of the last export (empty before)
    atExport,      \* the App state when that file was written (Null before)
    saved,         \* what the save calls of the last handler returned
    newPlayerName, \* App state `newPlayerName` (the "Neuer Spieler" field)
    reads          \* the FileReader reads of importFromJSON: those pending,
                   \* and the one that settled last (Null before)

\* the variables only the player list, the export and the import touch
fileVars == <<savedPlayers, download, atExport, newPlayerName, reads>>

vars == <<config, newPenalty, snackbar, kegelabende, currentAbend, storage,
          nextId, lastEvent, opsLeft, savedPlayers, download, atExport, saved,
          newPlayerName, reads>>

----------------------------------------------------------------------------
(* Bounds of the exploration *)

\* configuration events (price, entry fee, form, add, remove) per run of Spec
MaxConfigOps == 2
\* evening events (new evening, select, add/remove player, penalty count)
\* per run of Spec
MaxAbendOps == 3
\* players in the roster of one evening
MaxPlayers == 2
\* configuration events per run of SpecConfig
MaxSettingsOps == 4
\* LocalStorage writes that fail (quota exceeded) per run of SpecConfig
MaxWriteFailures == 1
\* SpecTotals: players of a drawn roster, largest count of a cell
MaxRoster == 2
MaxCount == 2
\* evening events per run of SpecAbend
MaxEveningOps == 3
\* SpecReload: configuration events and reloads of the page per run
MaxReloadConfigOps == 2
MaxReloads == 1
\* SpecSnapshot: exports, imports, reloads and player-list events per run
MaxFileOps == 3
\* SpecTouch: evening events per run (reloads: MaxReloads)
MaxTouchOps == 2
\* SpecPlayers: reloads and calls of the player-list handlers per run
MaxPlayerOps == 4
\* SpecPenalty: configuration events per run
MaxPenaltyOps == 4
\* SpecPending: file reads started and reloads, and evening events, per run
MaxPendingFileOps == 1
MaxPendingEveningOps == 1
\* SpecSession: imports and reloads, and evening events, per run
MaxSessionFileOps == 1
MaxSessionEveningOps == 1

----------------------------------------------------------------------------
(* Text helpers *)

Null == [null |-> TRUE]

Digits == <<"0", "1", "2", "3", "4", "5", "6", "7", "8", "9">>

IsDigit(c) == \E i \in 1..10 : Digits[i] = c

DigitVal(c) == (CHOOSE i \in 1..10 : Digits[i] = c) - 1

IsSpace(c) == c \in {" ", "\t", "\n"}

RECURSIVE Join(_)
\* the JavaScript string made of the characters of s
Join(s) == IF s = <<>> THEN "" ELSE Head(s) \o Join(Tail(s))

RECURSIVE SkipSpace(_)
SkipSpace(s) ==
    IF s # <<>> /\ IsSpace(Head(s)) THEN SkipSpace(Tail(s)) ELSE s

RECURSIVE DigitRun(_)
\* the longest prefix of s made of digits
DigitRun(s) ==
    IF s # <<>> /\ IsDigit(Head(s)) THEN <<Head(s)>> \o DigitRun(Tail(s)) ELSE <<>>

RECURSIVE DigitsValue(_)
DigitsValue(s) ==
    IF s = <<>> THEN 0
    ELSE DigitsValue(SubSeq(s, 1, Len(s) - 1)) * 10 + DigitVal(s[Len(s)])

Drop(s, n) == SubSeq(s, n + 1, Len(s))

\* String.prototype.trim() yields the empty string
IsBlank(s) == \A i \in 1..Len(s) : IsSpace(s[i])


RECURSIVE DropTrailingSpace(_)
DropTrailingSpace(s) ==
    IF s # <<>> /\ IsSpace(s[Len(s)])
    THEN DropTrailingSpace(SubSeq(s, 1, Len(s) - 1))
    ELSE s

\* String.prototype.trim()
Trim(s) == DropTrailingSpace(SkipSpace(s))

\* JavaScript numbers that may be NaN
NaN == [nan |-> TRUE, val |-> 0]

Num(n) == [nan |-> FALSE, val |-> n]

\* `x || 0` for a number x: NaN and 0 are falsy
OrZero(x) == IF x.nan \/ x.val = 0 THEN 0 ELSE x.val

\* parseInt(value, 10): leading white space, an optional sign, then the
\* longest run of digits; NaN when there is no digit
ParseInt(s) ==
    LET t    == SkipSpace(s)
        neg  == t # <<>> /\ Head(t) = "-"
        u    == IF t # <<>> /\ Head(t) \in {"-", "+"} THEN Tail(t) ELSE t
        ds   == DigitRun(u)
    IN  IF ds = <<>> THEN NaN
        ELSE Num(IF neg THEN 0 - DigitsValue(ds) ELSE DigitsValue(ds))

\* the first two decimals of a digit run, in cents
CentsOf(fs) ==
    (IF Len(fs) >= 1 THEN DigitVal(fs[1]) * 10 ELSE 0)
    + (IF Len(fs) >= 2 THEN DigitVal(fs[2]) ELSE 0)

\* parseFloat(value), in cents: leading white space, an optional sign,
\* digits, an optional "." and digits; NaN when there is no digit.  The
\* inputs of the model carry at most two decimals and no exponent.
ParseFloat(s) ==
    LET t    == SkipSpace(s)
        neg  == t # <<>> /\ Head(t) = "-"
        u    == IF t # <<>> /\ Head(t) \in {"-", "+"} THEN Tail(t) ELSE t
        is   == DigitRun(u)
        v    == Drop(u, Len(is))
        fs   == IF v # <<>> /\ Head(v) = "." THEN DigitRun(Tail(v)) ELSE <<>>
        abs  == DigitsValue(is) * 100 + CentsOf(fs)
    IN  IF is = <<>> /\ fs = <<>> THEN NaN
        ELSE Num(IF neg THEN 0 - abs ELSE abs)

RECURSIVE FormatNat(_)
FormatNat(n) ==
    IF n < 10 THEN <<Digits[n + 1]>>
    ELSE FormatNat(n \div 10) \o <<Digits[(n % 10) + 1]>>

\* String(n) for an integer n, as characters: the value a number field
\* hands to onChange
FormatInt(n) == IF n < 0 THEN <<"-">> \o FormatNat(0 - n) ELSE FormatNat(n)

UpperCase == <<"A", "B", "C", "D", "E", "F", "G", "H", "I", "J", "K", "L", "M",
               "N", "O", "P", "Q", "R", "S", "T", "U", "V", "W", "X", "Y", "Z">>

LowerCase == <<"a", "b", "c", "d", "e", "f", "g", "h", "i", "j", "k", "l", "m",
               "n", "o", "p", "q", "r", "s", "t", "u", "v", "w", "x", "y", "z">>

\* String.prototype.toLowerCase(), one character
ToLower(c) ==
    IF \E i \in 1..Len(UpperCase) : UpperCase[i] = c
    THEN LowerCase[CHOOSE i \in 1..Len(UpperCase) : UpperCase[i] = c]
    ELSE c

\* the characters of names in the order of their UTF-16 code units
CodeOrder == <<" ">> \o Digits \o UpperCase \o LowerCase

CharCode(c) == CHOOSE i \in 1..Len(CodeOrder) : CodeOrder[i] = c

RECURSIVE StringLess(_, _)
\* s < t for two strings, as Array.prototype.sort() compares them
StringLess(s, t) ==
    IF t = <<>> THEN FALSE
    ELSE IF s = <<>> THEN TRUE
    ELSE IF Head(s) = Head(t) THEN StringLess(Tail(s), Tail(t))
    ELSE CharCode(Head(s)) < CharCode(Head(t))

RECURSIVE InsertSorted(_, _)
InsertSorted(sorted, x) ==
    IF sorted = <<>> THEN <<x>>
    ELSE IF StringLess(x, Head(sorted)) THEN <<x>> \o sorted
    ELSE <<Head(sorted)>> \o InsertSorted(Tail(sorted), x)

RECURSIVE Sort(_)
\* names.sort()
Sort(names) ==
    IF names = <<>> THEN <<>> ELSE InsertSorted(Sort(Tail(names)), Head(names))

\* [a-z0-9_]
IsIdChar(c) ==
    \/ \E i \in 1..26 : LowerCase[i] = c
    \/ IsDigit(c)
    \/ c = "_"

RECURSIVE SpaceRunsToUnderscore(_)
\* .replace(/\s+/g, '_')
SpaceRunsToUnderscore(s) ==
    IF s = <<>> THEN <<>>
    ELSE IF IsSpace(Head(s)) THEN <<"_">> \o SpaceRunsToUnderscore(SkipSpace(s))
    ELSE <<Head(s)>> \o SpaceRunsToUnderscore(Tail(s))

\* the id handleAddPenalty derives from the label of the form
DeriveId(label) ==
    LET lower == [i \in 1..Len(label) |-> ToLower(label[i])]
        under == SpaceRunsToUnderscore(lower)
    IN  Join(SelectSeq(under, IsIdChar))

----------------------------------------------------------------------------
(* Shipped defaults *)

defaultConfig ==
    [ startgebuehr |-> 600,
      strafen |-> <<
        [id |-> "kalle", label |-> "Kalle", description |-> "Ball ins Aus",
         preis |-> 50],
        [id |-> "stina", label |-> "Stina", description |-> "Mittlere 3 Pins",
         preis |-> 50],
        [id |-> "verspaetung", label |-> "Verspaetung",
         description |-> "Zu spaet gekommen", preis |-> 100],
        [id |-> "verloren", label |-> "Spiel verloren",
         description |-> "Verlorenes Spiel", preis |-> 50],
        [id |-> "kranz", label |-> "Kranz",
         description |-> "Kranz geworfen - alle anderen zahlen", preis |-> 50,
         inverted |-> TRUE],
        [id |-> "volle", label |-> "Volle",
         description |-> "Volle geworfen - alle anderen zahlen", preis |-> 50,
         inverted |-> TRUE] >>,
      spielarten |-> <<
        [id |-> "wm", label |-> "WM", description |-> "Wachtberg Meisterschaft"],
        [id |-> "gs", label |-> "GS", description |-> "Geldspiel"] >>,
      waehrung |-> "EUR" ]

\* the reset value of the "new penalty" form
emptyNewPenalty ==
    [label |-> <<>>, description |-> "", preis |-> 50, inverted |-> FALSE]

closedSnackbar == [open |-> FALSE, message |-> "", severity |-> "success"]

Today == "2026-01-01"

createEmptyKegelabend(id) ==
    [id |-> id, datum |-> Today, spieler |-> <<>>, notizen |-> "",
     abgeschlossen |-> FALSE]

\* the player addPlayer appends
newPlayer(id) ==
    [id |-> id, name |-> "", anwesend |-> TRUE, strafen |-> <<>>,
     spiele |-> <<>>]

\* a penalty definition carries `inverted: true` (absent counts as false)
IsInverted(strafe) == "inverted" \in DOMAIN strafe /\ strafe.inverted

StrafeIds(cfg) == {cfg.strafen[i].id : i \in 1..Len(cfg.strafen)}

----------------------------------------------------------------------------
(* Inputs of the user events *)

\* text typed into a number field of the price dialog
RawPrices == { <<>>, <<"a", "b", "c">>, <<"-", "2">>, <<"1", ".", "5">> }

\* text typed into a penalty-count cell
RawCounts == { <<>>, <<"a", "b", "c">>, <<"-", "3">>, <<"2">> }

\* text typed into the name field of the "new penalty" form
RawLabels == { <<"K", "a", "l", "l", "e">>,
               <<"A", "l", "l", "e", " ", "9">>,
               <<"a", "l", "l", "e", " ", " ", "9", "!">>,
               <<" ">> }

\* the text of the stored count (absent: 0) raised by one, as typed into
\* the cell or produced by its step-up arrow
StepUp(player, strafeId) ==
    {FormatInt((IF strafeId \in DOMAIN player.strafen
                THEN player.strafen[strafeId] ELSE 0) + 1)}

\* text typed into the name field of a player, a game-result cell and the
\* date field of the evening
RawNames == { <<"A", "n", "n", "a">> }

RawResults == { <<"1", "2", "0">> }

RawDates == { <<"2", "0", "2", "6", "-", "0", "2", "-", "0", "2">> }

\* text typed into the "Neuer Spieler" field of the player dialog
RawPlayerNames == { <<"B", "e", "r", "t">>, <<" ", "A", "n", "n", "a", " ">>,
                    <<" ">> }

\* the game-type columns of the table the user touches
TouchedSpiele == {"wm"}

\* the penalty ids the handlers are called with: rows of the price dialog
\* and columns of the table (a handler may be called with the id of a row
\* that is not, or no longer, in the configuration)
TouchedStrafen == {"kalle", "kranz", "alle_9"}

----------------------------------------------------------------------------
(* LocalStorage *)

\* A text is a sequence: the JSON text of a value is the one-element
\* sequence of that value, the empty sequence is the empty text (and the
\* null of getItem for a key without item), any longer sequence is a text
\* that is not JSON.
JSONstringify(data) == <<data>>

\* JSON.parse(text): the value, or a SyntaxError
\* (value: the parsed value as a one-element sequence, empty when it threw)
JSONparse(text) ==
    IF Len(text) = 1 THEN [threw |-> FALSE, value |-> text]
    ELSE [threw |-> TRUE, value |-> <<>>]

\* a stored text that is not JSON: the two characters `{]`
NotJSON == <<"{", "]">>

\* saveToStorage(key, data): setItem throws when the quota is exceeded
\* (ok = FALSE); the new LocalStorage and the boolean returned
saveToStorage(store, key, data, ok) ==
    IF ok THEN [store |-> [store EXCEPT ![key] = JSONstringify(data)],
                result |-> TRUE]
    ELSE [store |-> store, result |-> FALSE]

\* loadFromStorage(key, defaultValue): the default for a key without item
\* (or with the empty text) and when JSON.parse throws
loadFromStorage(store, key, defaultValue) ==
    IF store[key] = <<>> \/ JSONparse(store[key]).threw THEN defaultValue
    ELSE JSONparse(store[key]).value[1]

saveConfig(store, cfg, ok) == saveToStorage(store, "config", cfg, ok)

loadConfig(store, default) == loadFromStorage(store, "config", default)

saveKegelabende(store, abende, ok) ==
    saveToStorage(store, "kegelabende", abende, ok)

loadKegelabende(store) == loadFromStorage(store, "kegelabende", <<>>)

saveSpieler(store, spieler, ok) == saveToStorage(store, "spieler", spieler, ok)

loadSpieler(store) == loadFromStorage(store, "spieler", <<>>)

\* no read of a file was started
noReads == [pending |-> {}, settled |-> Null]

\* LocalStorage without items
emptyStorage == [config |-> <<>>, kegelabende |-> <<>>, spieler |-> <<>>]

\* the outcomes a LocalStorage write can have in the current state
WriteOutcomes == IF opsLeft.fail > 0 THEN {TRUE, FALSE} ELSE {TRUE}

\* a handler call: name and arguments (0, "" and <<>> where it has none)
Event(handler, id, strafeId, raw) ==
    [handler |-> handler, id |-> id, strafeId |-> strafeId, raw |-> raw]

\* the budget after one event of the given kind and a write with outcome ok
Spend(kind, ok) ==
    [opsLeft EXCEPT ![kind] = @ - 1,
                    !.fail = IF ok THEN @ ELSE @ - 1]

----------------------------------------------------------------------------
(* Settlement: KegelabendTable *)

\* player.strafen[strafe.id] || 0
CountOf(player, strafeId) ==
    IF strafeId \in DOMAIN player.strafen THEN player.strafen[strafeId] ELSE 0

RECURSIVE SumPenaltiesOnce(_, _, _)
\* SumPenalties charging a penalty once, however often it was incurred
SumPenaltiesOnce(player, strafen, n) ==
    IF n = 0 THEN 0
    ELSE SumPenaltiesOnce(player, strafen, n - 1)
         + (IF CountOf(player, strafen[n].id) > 0 THEN 1 ELSE 0) * strafen[n].preis

RECURSIVE SumPenalties(_, _, _)
\* the forEach of calculatePlayerTotal over strafen[1..n]
SumPenalties(player, strafen, n) ==
    IF n = 0 THEN 0
    ELSE SumPenalties(player, strafen, n - 1)
         + CountOf(player, strafen[n].id) * strafen[n].preis

calculatePlayerTotal(player, cfg) ==
    cfg.startgebuehr + SumPenalties(player, cfg.strafen, Len(cfg.strafen))

RECURSIVE ReduceTotalsNoSeed(_, _, _)
\* ReduceTotals without the initial value 0: the first player is the seed
\* and is not charged
ReduceTotalsNoSeed(spieler, cfg, n) ==
    IF n <= 1 THEN 0
    ELSE ReduceTotalsNoSeed(spieler, cfg, n - 1)
         + calculatePlayerTotal(spieler[n], cfg)

RECURSIVE ReduceTotals(_, _, _)
\* spieler.reduce((sum, player) => sum + calculatePlayerTotal(player, config), 0)
ReduceTotals(spieler, cfg, n) ==
    IF n = 0 THEN 0
    ELSE ReduceTotals(spieler, cfg, n - 1) + calculatePlayerTotal(spieler[n], cfg)

grandTotal(abend, cfg) == ReduceTotals(abend.spieler, cfg, Len(abend.spieler))

----------------------------------------------------------------------------
(* Roster handlers of KegelabendTable: the evening they hand to onUpdate *)

\* { ...player.strafen, [strafeId]: numValue }
WithCount(strafen, strafeId, numValue) ==
    [k \in DOMAIN strafen \cup {strafeId} |->
        IF k = strafeId THEN numValue ELSE strafen[k]]

\* handleStrafeChange writing the count into the row of every player
handleStrafeChangeEveryRow(abend, playerId, strafeId, value) ==
    LET numValue == OrZero(ParseInt(value))
    IN  [abend EXCEPT !.spieler =
            [i \in 1..Len(abend.spieler) |->
                [abend.spieler[i] EXCEPT
                    !.strafen = WithCount(@, strafeId, numValue)]]]

handleStrafeChange(abend, playerId, strafeId, value) ==
    LET numValue == OrZero(ParseInt(value))
    IN  [abend EXCEPT !.spieler =
            [i \in 1..Len(abend.spieler) |->
                IF abend.spieler[i].id = playerId
                THEN [abend.spieler[i] EXCEPT
                        !.strafen = WithCount(@, strafeId, numValue)]
                ELSE abend.spieler[i]]]

\* handlePlayerChange(playerId, 'name', value)
handlePlayerChange(abend, playerId, value) ==
    [abend EXCEPT !.spieler =
        [i \in 1..Len(abend.spieler) |->
            IF abend.spieler[i].id = playerId
            THEN [abend.spieler[i] EXCEPT !.name = Join(value)]
            ELSE abend.spieler[i]]]

\* { ...player.spiele, [spielId]: value }
WithResult(spiele, spielId, value) ==
    [k \in DOMAIN spiele \cup {spielId} |->
        IF k = spielId THEN value ELSE spiele[k]]

handleSpielChange(abend, playerId, spielId, value) ==
    [abend EXCEPT !.spieler =
        [i \in 1..Len(abend.spieler) |->
            IF abend.spieler[i].id = playerId
            THEN [abend.spieler[i] EXCEPT
                    !.spiele = WithResult(@, spielId, Join(value))]
            ELSE abend.spieler[i]]]

\* onChange of the date field: { ...currentAbend, datum: e.target.value }
datumChanged(abend, value) == [abend EXCEPT !.datum = Join(value)]

addPlayer(abend, id) ==
    [abend EXCEPT !.spieler = Append(@, newPlayer(id))]

removePlayer(abend, playerId) ==
    [abend EXCEPT !.spieler = SelectSeq(@, LAMBDA p : p.id # playerId)]

----------------------------------------------------------------------------
(* Configuration handlers of App: the configuration they store *)

\* priceChanged writing the price into every row
priceChangedEveryRow(cfg, strafeId, newPrice) ==
    [cfg EXCEPT !.strafen =
        [i \in 1..Len(cfg.strafen) |->
            [cfg.strafen[i] EXCEPT !.preis = OrZero(ParseFloat(newPrice))]]]

\* handlePriceChange: the updatedConfig
priceChanged(cfg, strafeId, newPrice) ==
    [cfg EXCEPT !.strafen =
        [i \in 1..Len(cfg.strafen) |->
            IF cfg.strafen[i].id = strafeId
            THEN [cfg.strafen[i] EXCEPT !.preis = OrZero(ParseFloat(newPrice))]
            ELSE cfg.strafen[i]]]

\* startgebuehrChanged reading the text with parseInt: whole euros only
startgebuehrChangedInt(cfg, newValue) ==
    [cfg EXCEPT !.startgebuehr = OrZero(ParseInt(newValue)) * 100]

\* handleStartgebuehrChange: the updatedConfig
startgebuehrChanged(cfg, newValue) ==
    [cfg EXCEPT !.startgebuehr = OrZero(ParseFloat(newValue))]

\* penaltyExists comparing the labels instead of the derived id
penaltyExistsByLabel(cfg, form) ==
    \E i \in 1..Len(cfg.strafen) : cfg.strafen[i].label = Join(form.label)

\* handleAddPenalty: config.strafen.some(s => s.id === id)
penaltyExists(cfg, form) == DeriveId(form.label) \in StrafeIds(cfg)

\* penaltyOfForm dropping the price of the form
penaltyOfFormNoPrice(form, id) ==
    [id |-> id, label |-> Join(form.label), description |-> form.description,
     preis |-> 0, inverted |-> form.inverted]

\* handleAddPenalty: { ...newPenalty, id }
penaltyOfForm(form, id) ==
    [id |-> id, label |-> Join(form.label), description |-> form.description,
     preis |-> form.preis, inverted |-> form.inverted]

\* handleAddPenalty: the updatedConfig
penaltyAdded(cfg, form) ==
    [cfg EXCEPT !.strafen = Append(@, penaltyOfForm(form, DeriveId(form.label)))]

\* handleRemovePenalty: the updatedConfig
penaltyRemoved(cfg, strafeId) ==
    [cfg EXCEPT !.strafen = SelectSeq(@, LAMBDA st : st.id # strafeId)]

\* the "Preis" field of the form: parseFloat(e.target.value) || 0
newPenaltyPreis(raw) == OrZero(ParseFloat(raw))

----------------------------------------------------------------------------
(* Player list of App: names are kept as character sequences *)

Includes(names, name) == \E i \in 1..Len(names) : names[i] = name

\* savedPlayerAdded without the sort
savedPlayerAddedUnsorted(prev, trimmed) ==
    IF Includes(prev, trimmed) THEN prev ELSE Append(prev, trimmed)

\* addSavedPlayer: the update function applied to prev
savedPlayerAdded(prev, trimmed) ==
    IF Includes(prev, trimmed) THEN prev ELSE Sort(Append(prev, trimmed))

\* removeSavedPlayer: prev.filter(p => p !== name)
savedPlayerRemoved(prev, name) == SelectSeq(prev, LAMBDA p : p # name)

----------------------------------------------------------------------------
(* Export and import of storageService *)

\* new Date().toISOString() at the export
Now == "2026-01-01T12:00:00.000Z"

\* exportToJSON: the text of the downloaded file
exportToJSON(store) ==
    JSONstringify(
        [kegelabende |-> loadKegelabende(store),
         config |-> loadFromStorage(store, "config", Null),
         spieler |-> loadSpieler(store),
         exportDatum |-> Now,
         version |-> "1.0"])

\* data[key] is truthy: the key is present and not null (arrays and objects
\* are truthy, empty ones too; null is what exportToJSON writes for the
\* configuration of a LocalStorage without one)
Truthy(data, key) ==
    /\ key \in DOMAIN data
    /\ key = "config" => data.config # Null

\* a selected file: its name, whether FileReader can read it, its text
File(name, readable, text) ==
    [name |-> name, readable |-> readable, text |-> text]

\* the Promise of importFromJSON: rejected, or resolved with data after the
\* save calls (oks: whether the setItem of each key succeeds); results are
\* the booleans the save calls returned
importRejected(store) ==
    [rejected |-> TRUE, data |-> Null, store |-> store, results |-> <<>>]

\* importFromJSON resolving with an empty document for a file it cannot read
importFromJSONUnreadableAsEmpty(store, file, oks) ==
    IF ~file.readable
    THEN [rejected |-> FALSE, data |-> [version |-> "1.0"], store |-> store,
          results |-> <<>>]
    ELSE IF JSONparse(file.text).threw THEN importRejected(store)
    ELSE IF JSONparse(file.text).value[1] = Null THEN importRejected(store)
    ELSE LET data == JSONparse(file.text).value[1]
             w1 == IF Truthy(data, "kegelabende")
                   THEN saveKegelabende(store, data.kegelabende, oks.kegelabende)
                   ELSE [store |-> store]
             w2 == IF Truthy(data, "config")
                   THEN saveConfig(w1.store, data.config, oks.config)
                   ELSE [store |-> w1.store]
             w3 == IF Truthy(data, "spieler")
                   THEN saveSpieler(w2.store, data.spieler, oks.spieler)
                   ELSE [store |-> w2.store]
             Results(w) == IF "result" \in DOMAIN w THEN <<w.result>> ELSE <<>>
         IN  [rejected |-> FALSE, data |-> data, store |-> w3.store,
              results |-> Results(w1) \o Results(w2) \o Results(w3)]

importFromJSON(store, file, oks) ==
    IF ~file.readable THEN importRejected(store)
    ELSE IF JSONparse(file.text).threw THEN importRejected(store)
    \* data is null: data.kegelabende throws inside the try
    ELSE IF JSONparse(file.text).value[1] = Null THEN importRejected(store)
    ELSE LET data == JSONparse(file.text).value[1]
             w1 == IF Truthy(data, "kegelabende")
                   THEN saveKegelabende(store, data.kegelabende, oks.kegelabende)
                   ELSE [store |-> store]
             w2 == IF Truthy(data, "config")
                   THEN saveConfig(w1.store, data.config, oks.config)
                   ELSE [store |-> w1.store]
             w3 == IF Truthy(data, "spieler")
                   THEN saveSpieler(w2.store, data.spieler, oks.spieler)
                   ELSE [store |-> w2.store]
             Results(w) == IF "result" \in DOMAIN w THEN <<w.result>> ELSE <<>>
         IN  [rejected |-> FALSE, data |-> data, store |-> w3.store,
              results |-> Results(w1) \o Results(w2) \o Results(w3)]

----------------------------------------------------------------------------
(* Auto-save effect of App *)

\* the updatedAbende of the effect: replace the entry with the current
\* evening's id (the first one, findIndex), else append
\* autoSaved without the findIndex: the current evening is always appended
autoSavedAppends(prevAbende, cur) == Append(prevAbende, cur)

autoSaved(prevAbende, cur) ==
    LET hits == {i \in 1..Len(prevAbende) : prevAbende[i].id = cur.id}
    IN  IF hits # {}
        THEN LET existingIndex == CHOOSE i \in hits : \A j \in hits : i <= j
             IN  [prevAbende EXCEPT ![existingIndex] = cur]
        ELSE Append(prevAbende, cur)

----------------------------------------------------------------------------
(* Startup effect of App *)

\* mergedConfig keeping the penalties of the loaded configuration
mergedConfigKeepStrafen(savedConfig) ==
    [savedConfig EXCEPT !.spielarten = defaultConfig.spielarten]

\* { ...savedConfig, strafen: defaultConfig.strafen,
\*   spielarten: defaultConfig.spielarten }
mergedConfig(savedConfig) ==
    [savedConfig EXCEPT !.strafen = defaultConfig.strafen,
                        !.spielarten = defaultConfig.spielarten]

----------------------------------------------------------------------------
(* State after construction: first start, nothing in LocalStorage *)

Init ==
    /\ config = defaultConfig
    /\ newPenalty = emptyNewPenalty
    /\ snackbar = closedSnackbar
    /\ kegelabende = <<>>
    /\ currentAbend = Null
    /\ storage = emptyStorage
    /\ nextId = 1
    /\ lastEvent = Event("mount", 0, "", <<>>)
    /\ opsLeft = [config |-> MaxConfigOps, abend |-> MaxAbendOps, fail |-> 0,
                  file |-> 0]
    /\ savedPlayers = <<>>
    /\ download = <<>>
    /\ atExport = Null
    /\ saved = <<>>
    /\ newPlayerName = <<>>
    /\ reads = noReads

----------------------------------------------------------------------------
(* Events on the configuration *)

\* StoreConfig persisting the configuration of the last render instead of
\* the updated one
StoreConfigStale(updatedConfig, ok) ==
    /\ config' = updatedConfig
    /\ storage' = saveConfig(storage, config, ok).store
    /\ saved' = <<saveConfig(storage, config, ok).result>>
    /\ opsLeft' = Spend("config", ok)

\* store the configuration and persist it (setConfig; saveConfig)
StoreConfig(updatedConfig, ok) ==
    /\ config' = updatedConfig
    /\ storage' = saveConfig(storage, updatedConfig, ok).store
    /\ saved' = <<saveConfig(storage, updatedConfig, ok).result>>
    /\ opsLeft' = Spend("config", ok)

HandlePriceChange ==
    /\ opsLeft.config > 0
    /\ \E strafeId \in TouchedStrafen,
          newPrice \in RawPrices, ok \in WriteOutcomes :
            /\ StoreConfig(priceChanged(config, strafeId, newPrice), ok)
            /\ lastEvent' = Event("handlePriceChange", 0, strafeId, newPrice)
    /\ UNCHANGED <<newPenalty, snackbar, kegelabende, currentAbend, nextId, fileVars>>

HandleStartgebuehrChange ==
    /\ opsLeft.config > 0
    /\ \E newValue \in RawPrices, ok \in WriteOutcomes :
            /\ StoreConfig(startgebuehrChanged(config, newValue), ok)
            /\ lastEvent' = Event("handleStartgebuehrChange", 0, "", newValue)
    /\ UNCHANGED <<newPenalty, snackbar, kegelabende, currentAbend, nextId, fileVars>>

\* onChange of the three fields of the "new penalty" form
EditNewPenalty ==
    /\ opsLeft.config > 0
    /\ \/ \E raw \in RawLabels :
            /\ newPenalty' = [newPenalty EXCEPT !.label = raw]
            /\ lastEvent' = Event("setNewPenaltyLabel", 0, "", raw)
       \/ \E raw \in RawPrices :
            /\ newPenalty' = [newPenalty EXCEPT !.preis = newPenaltyPreis(raw)]
            /\ lastEvent' = Event("setNewPenaltyPreis", 0, "", raw)
       \/ \E b \in BOOLEAN :
            /\ newPenalty' = [newPenalty EXCEPT !.inverted = b]
            /\ lastEvent' = Event("setNewPenaltyInverted", 0, "", <<>>)
    /\ opsLeft' = Spend("config", TRUE)
    /\ saved' = <<>>
    /\ UNCHANGED <<config, snackbar, kegelabende, currentAbend, storage, nextId,
                   fileVars>>

\* handleAddPenalty, blank label: return
AddPenaltyBlank ==
    /\ opsLeft.config > 0
    /\ IsBlank(newPenalty.label)
    /\ lastEvent' = Event("handleAddPenalty", 0, "", newPenalty.label)
    /\ opsLeft' = Spend("config", TRUE)
    /\ saved' = <<>>
    /\ UNCHANGED <<config, newPenalty, snackbar, kegelabende, currentAbend,
                   storage, nextId, fileVars>>

\* handleAddPenalty, the derived id exists: error notification, return
AddPenaltyDuplicate ==
    /\ opsLeft.config > 0
    /\ ~IsBlank(newPenalty.label)
    /\ penaltyExists(config, newPenalty)
    /\ snackbar' = [open |-> TRUE, message |-> "Strafe existiert bereits!",
                    severity |-> "error"]
    /\ lastEvent' = Event("handleAddPenalty", 0, "", newPenalty.label)
    /\ opsLeft' = Spend("config", TRUE)
    /\ saved' = <<>>
    /\ UNCHANGED <<config, newPenalty, kegelabende, currentAbend, storage, nextId,
                   fileVars>>

\* handleAddPenalty, new id: append, persist, reset the form
AddPenaltyNew ==
    /\ opsLeft.config > 0
    /\ ~IsBlank(newPenalty.label)
    /\ ~penaltyExists(config, newPenalty)
    /\ \E ok \in WriteOutcomes : StoreConfig(penaltyAdded(config, newPenalty), ok)
    /\ newPenalty' = emptyNewPenalty
    /\ lastEvent' = Event("handleAddPenalty", 0, "", newPenalty.label)
    /\ UNCHANGED <<snackbar, kegelabende, currentAbend, nextId, fileVars>>

HandleAddPenalty == AddPenaltyBlank \/ AddPenaltyDuplicate \/ AddPenaltyNew

HandleRemovePenalty ==
    /\ opsLeft.config > 0
    /\ \E strafeId \in TouchedStrafen, ok \in WriteOutcomes :
            /\ StoreConfig(penaltyRemoved(config, strafeId), ok)
            /\ lastEvent' = Event("handleRemovePenalty", 0, strafeId, <<>>)
    /\ UNCHANGED <<newPenalty, snackbar, kegelabende, currentAbend, nextId, fileVars>>

----------------------------------------------------------------------------
(* Events on the evenings; each ends with the auto-save effect *)

\* SetCurrentAbend saving the collection of the last render (a stale
\* closure) instead of the updated one
SetCurrentAbendStale(abend, ok) ==
    /\ currentAbend' = abend
    /\ kegelabende' = autoSaved(kegelabende, abend)
    /\ storage' = saveKegelabende(storage, kegelabende, ok).store
    /\ saved' = <<saveKegelabende(storage, kegelabende, ok).result>>

\* SetCurrentAbend keeping the state of before when the write fails
SetCurrentAbendRollsBack(abend, ok) ==
    /\ currentAbend' = IF ok THEN abend ELSE currentAbend
    /\ kegelabende' = IF ok THEN autoSaved(kegelabende, abend) ELSE kegelabende
    /\ storage' = saveKegelabende(storage, autoSaved(kegelabende, abend), ok).store
    /\ saved' = <<saveKegelabende(storage, autoSaved(kegelabende, abend), ok).result>>

\* setCurrentAbend(abend) followed by the auto-save effect
SetCurrentAbend(abend, ok) ==
    /\ currentAbend' = abend
    /\ kegelabende' = autoSaved(kegelabende, abend)
    /\ storage' = saveKegelabende(storage, autoSaved(kegelabende, abend), ok).store
    /\ saved' = <<saveKegelabende(storage, autoSaved(kegelabende, abend), ok).result>>

HandleNewAbend ==
    /\ opsLeft.abend > 0
    /\ \E ok \in WriteOutcomes :
            /\ SetCurrentAbend(createEmptyKegelabend(nextId), ok)
            /\ opsLeft' = Spend("abend", ok)
    /\ nextId' = nextId + 1
    /\ lastEvent' = Event("handleNewAbend", nextId, "", <<>>)
    /\ UNCHANGED <<config, newPenalty, snackbar, fileVars>>

\* a button of the list of evenings; the current evening's own button
\* sets the same object and triggers nothing
SelectAbend ==
    /\ opsLeft.abend > 0
    /\ \E i \in 1..Len(kegelabende), ok \in WriteOutcomes :
        /\ currentAbend = Null \/ kegelabende[i].id # currentAbend.id
        /\ SetCurrentAbend(kegelabende[i], ok)
        /\ opsLeft' = Spend("abend", ok)
        /\ lastEvent' = Event("selectAbend", kegelabende[i].id, "", <<>>)
    /\ UNCHANGED <<config, newPenalty, snackbar, nextId, fileVars>>

AddPlayer ==
    /\ opsLeft.abend > 0
    /\ currentAbend # Null
    /\ Len(currentAbend.spieler) < MaxPlayers
    /\ \E ok \in WriteOutcomes :
            /\ SetCurrentAbend(addPlayer(currentAbend, nextId), ok)
            /\ opsLeft' = Spend("abend", ok)
    /\ nextId' = nextId + 1
    /\ lastEvent' = Event("addPlayer", nextId, "", <<>>)
    /\ UNCHANGED <<config, newPenalty, snackbar, fileVars>>

RemovePlayer ==
    /\ opsLeft.abend > 0
    /\ currentAbend # Null
    /\ \E i \in 1..Len(currentAbend.spieler), ok \in WriteOutcomes :
        /\ SetCurrentAbend(removePlayer(currentAbend, currentAbend.spieler[i].id), ok)
        /\ opsLeft' = Spend("abend", ok)
        /\ lastEvent' = Event("removePlayer", currentAbend.spieler[i].id, "", <<>>)
    /\ UNCHANGED <<config, newPenalty, snackbar, nextId, fileVars>>

HandleStrafeChange ==
    /\ opsLeft.abend > 0
    /\ currentAbend # Null
    /\ \E i \in 1..Len(currentAbend.spieler),
          strafeId \in TouchedStrafen \cap StrafeIds(config),
          value \in RawCounts, ok \in WriteOutcomes :
            /\ SetCurrentAbend(
                    handleStrafeChange(currentAbend, currentAbend.spieler[i].id,
                                       strafeId, value), ok)
            /\ lastEvent' = Event("handleStrafeChange", currentAbend.spieler[i].id,
                                  strafeId, value)
            /\ opsLeft' = Spend("abend", ok)
    /\ UNCHANGED <<config, newPenalty, snackbar, nextId, fileVars>>

HandlePlayerChange ==
    /\ opsLeft.abend > 0
    /\ currentAbend # Null
    /\ \E i \in 1..Len(currentAbend.spieler), value \in RawNames,
          ok \in WriteOutcomes :
            /\ SetCurrentAbend(
                    handlePlayerChange(currentAbend, currentAbend.spieler[i].id,
                                       value), ok)
            /\ lastEvent' = Event("handlePlayerChange", currentAbend.spieler[i].id,
                                  "name", value)
            /\ opsLeft' = Spend("abend", ok)
    /\ UNCHANGED <<config, newPenalty, snackbar, nextId, fileVars>>

HandleSpielChange ==
    /\ opsLeft.abend > 0
    /\ currentAbend # Null
    /\ \E i \in 1..Len(currentAbend.spieler), spielId \in TouchedSpiele,
          value \in RawResults, ok \in WriteOutcomes :
            /\ SetCurrentAbend(
                    handleSpielChange(currentAbend, currentAbend.spieler[i].id,
                                      spielId, value), ok)
            /\ lastEvent' = Event("handleSpielChange", currentAbend.spieler[i].id,
                                  spielId, value)
            /\ opsLeft' = Spend("abend", ok)
    /\ UNCHANGED <<config, newPenalty, snackbar, nextId, fileVars>>

\* the date field of the current evening
HandleDatumChange ==
    /\ opsLeft.abend > 0
    /\ currentAbend # Null
    /\ \E value \in RawDates, ok \in WriteOutcomes :
            /\ SetCurrentAbend(datumChanged(currentAbend, value), ok)
            /\ lastEvent' = Event("handleUpdateAbend", currentAbend.id, "datum",
                                  value)
            /\ opsLeft' = Spend("abend", ok)
    /\ UNCHANGED <<config, newPenalty, snackbar, nextId, fileVars>>

----------------------------------------------------------------------------
(* Start and reload of the page *)

\* the startup effect has run
Mounted == lastEvent.handler # "App"

\* the startup effect, followed by the auto-save effect when it selected an
\* evening.  A reload of the page starts from the useState values and ends
\* in the same state; the first start is not counted as a reload.
Mount ==
    /\ ~Mounted \/ opsLeft.file > 0
    /\ LET savedConfig == loadConfig(storage, defaultConfig)
           savedAbende == loadKegelabende(storage)
           savedPlayersList == loadSpieler(storage)
           reloads == IF Mounted THEN opsLeft.file - 1 ELSE opsLeft.file
       IN  /\ config' = mergedConfig(savedConfig)
           /\ savedPlayers' = savedPlayersList
           /\ IF Len(savedAbende) > 0
              THEN \E ok \in WriteOutcomes :
                    LET cur == savedAbende[Len(savedAbende)]
                        write == saveKegelabende(storage,
                                                 autoSaved(savedAbende, cur), ok)
                    IN  /\ currentAbend' = cur
                        /\ kegelabende' = autoSaved(savedAbende, cur)
                        /\ storage' = write.store
                        /\ saved' = <<write.result>>
                        /\ opsLeft' = [opsLeft EXCEPT
                                        !.file = reloads,
                                        !.fail = IF ok THEN @ ELSE @ - 1]
              ELSE /\ currentAbend' = Null
                   /\ kegelabende' = savedAbende
                   /\ storage' = storage
                   /\ saved' = <<>>
                   /\ opsLeft' = [opsLeft EXCEPT !.file = reloads]
    /\ newPenalty' = emptyNewPenalty
    /\ snackbar' = closedSnackbar
    /\ newPlayerName' = <<>>
    /\ reads' = noReads
    /\ lastEvent' = Event("mount", 0, "", <<>>)
    /\ UNCHANGED <<nextId, download, atExport>>

----------------------------------------------------------------------------

(* The application: every event *)

NextConfig ==
    \/ HandlePriceChange
    \/ HandleStartgebuehrChange
    \/ EditNewPenalty
    \/ HandleAddPenalty
    \/ HandleRemovePenalty

Next ==
    \/ NextConfig
    \/ HandleNewAbend
    \/ SelectAbend
    \/ AddPlayer
    \/ RemovePlayer
    \/ HandleStrafeChange

Spec == Init /\ [][Next]_vars

----------------------------------------------------------------------------
(* The table of the evenings *)

NextAbend ==
    \/ HandleNewAbend
    \/ SelectAbend
    \/ HandleDatumChange
    \/ AddPlayer
    \/ RemovePlayer
    \/ HandlePlayerChange
    \/ HandleStrafeChange
    \/ HandleSpielChange

----------------------------------------------------------------------------
(* Start and reload of the page over what earlier sessions left in *)
(* LocalStorage                                                     *)

\* the evenings of an earlier session: an empty one, and one with a player
earlierAbende ==
    << createEmptyKegelabend(1),
       [createEmptyKegelabend(2) EXCEPT !.spieler =
            << [newPlayer(3) EXCEPT !.name = "Anna",
                                    !.strafen = WithCount(<<>>, "kalle", 1)] >>] >>

\* the configuration of an earlier session: entry fee and a price edited, a
\* penalty added, and the currency of an imported file
earlierConfig ==
    [priceChanged(
        penaltyAdded(startgebuehrChanged(defaultConfig, <<"5">>),
                     [emptyNewPenalty EXCEPT !.label = <<"P", "u", "d", "e", "l">>]),
        "stina", <<"1">>)
     EXCEPT !.waehrung = "CHF"]

\* what LocalStorage holds when the page is opened: nothing, the items of
\* an earlier session, items that are not JSON
DrawnStorages ==
    { emptyStorage,
      [config |-> JSONstringify(earlierConfig),
       kegelabende |-> JSONstringify(earlierAbende),
       spieler |-> JSONstringify(<< <<"A", "n", "n", "a">> >>)],
      [config |-> NotJSON, kegelabende |-> NotJSON, spieler |-> NotJSON] }

\* the useState values of App over a drawn LocalStorage
InitOpened ==
    /\ config = defaultConfig
    /\ newPenalty = emptyNewPenalty
    /\ snackbar = closedSnackbar
    /\ kegelabende = <<>>
    /\ currentAbend = Null
    /\ storage \in DrawnStorages
    /\ nextId = 4
    /\ lastEvent = Event("App", 0, "", <<>>)
    /\ savedPlayers = <<>>
    /\ download = <<>>
    /\ atExport = Null
    /\ saved = <<>>
    /\ newPlayerName = <<>>
    /\ reads = noReads

InitReload ==
    /\ InitOpened
    /\ opsLeft = [config |-> MaxReloadConfigOps, abend |-> 0,
                  fail |-> MaxWriteFailures, file |-> MaxReloads]

NextReload ==
    \/ Mount
    \/ Mounted /\ NextConfig

SpecReload == InitReload /\ [][NextReload]_vars

\* the start of the page and the table of the evenings, with failing
\* LocalStorage writes
InitAbend ==
    /\ InitOpened
    /\ opsLeft = [config |-> 0, abend |-> MaxEveningOps,
                  fail |-> MaxWriteFailures, file |-> 0]

NextTable ==
    \/ Mount
    \/ Mounted /\ NextAbend

SpecAbend == InitAbend /\ [][NextTable]_vars

\* the table of the evenings with reloads of the page in between
InitTouch ==
    /\ InitOpened
    /\ opsLeft = [config |-> 0, abend |-> MaxTouchOps,
                  fail |-> MaxWriteFailures, file |-> MaxReloads]

SpecTouch == InitTouch /\ [][NextTable]_vars

----------------------------------------------------------------------------
(* Player list, export and import *)

\* onChange of the "Neuer Spieler" field of the player dialog
SetNewPlayerName ==
    /\ \E raw \in RawPlayerNames :
        /\ raw # newPlayerName
        /\ newPlayerName' = raw
        /\ lastEvent' = Event("setNewPlayerName", 0, "", raw)
    /\ saved' = <<>>
    /\ UNCHANGED <<config, newPenalty, snackbar, kegelabende, currentAbend,
                   storage, nextId, opsLeft, savedPlayers, download, atExport,
                   reads>>

\* addSavedPlayer(name) of a name that is a string: a blank name returns,
\* any other is added, persisted, and the field is cleared
addSavedPlayerString(name, trigger) ==
    /\ lastEvent' = Event("addSavedPlayer", 0, trigger, newPlayerName)
    /\ IF Trim(name) = <<>>
       THEN /\ saved' = <<>>
            /\ opsLeft' = Spend("file", TRUE)
            /\ UNCHANGED <<savedPlayers, storage, newPlayerName>>
       ELSE \E ok \in WriteOutcomes :
            LET updated == savedPlayerAdded(savedPlayers, Trim(name))
            IN  /\ savedPlayers' = updated
                /\ storage' = saveSpieler(storage, updated, ok).store
                /\ saved' = <<saveSpieler(storage, updated, ok).result>>
                /\ opsLeft' = Spend("file", ok)
                /\ newPlayerName' = <<>>

\* addSavedPlayer(name) of a name that is not a string: trimmed is '', return
addSavedPlayerObject(trigger) ==
    /\ lastEvent' = Event("addSavedPlayer", 0, trigger, newPlayerName)
    /\ saved' = <<>>
    /\ opsLeft' = Spend("file", TRUE)
    /\ UNCHANGED <<savedPlayers, storage, newPlayerName>>

\* Enter in the "Neuer Spieler" field: addSavedPlayer(), the name defaults
\* to newPlayerName
AddSavedPlayer ==
    /\ opsLeft.file > 0
    /\ addSavedPlayerString(newPlayerName, "Enter")
    /\ UNCHANGED <<config, newPenalty, snackbar, kegelabende, currentAbend,
                   nextId, download, atExport, reads>>

\* the "Hinzufuegen" button (disabled while the field is blank):
\* onClick={addSavedPlayer} calls addSavedPlayer(event)
AddSavedPlayerClick ==
    /\ opsLeft.file > 0
    /\ ~IsBlank(newPlayerName)
    /\ addSavedPlayerObject("click")
    /\ UNCHANGED <<config, newPenalty, snackbar, kegelabende, currentAbend,
                   nextId, download, atExport, reads>>

\* the delete button of a row of the player dialog
RemoveSavedPlayer ==
    /\ opsLeft.file > 0
    /\ \E i \in 1..Len(savedPlayers), ok \in WriteOutcomes :
        LET updated == savedPlayerRemoved(savedPlayers, savedPlayers[i])
        IN  /\ lastEvent' = Event("removeSavedPlayer", 0, "", savedPlayers[i])
            /\ savedPlayers' = updated
            /\ storage' = saveSpieler(storage, updated, ok).store
            /\ saved' = <<saveSpieler(storage, updated, ok).result>>
            /\ opsLeft' = Spend("file", ok)
    /\ UNCHANGED <<config, newPenalty, snackbar, kegelabende, currentAbend,
                   nextId, download, atExport, newPlayerName, reads>>

HandleExport ==
    /\ opsLeft.file > 0
    /\ download' = exportToJSON(storage)
    /\ atExport' = [config |-> config, kegelabende |-> kegelabende,
                    savedPlayers |-> savedPlayers]
    /\ snackbar' = [open |-> TRUE, message |-> "Export erfolgreich!",
                    severity |-> "success"]
    /\ saved' = <<>>
    /\ lastEvent' = Event("handleExport", 0, "", <<>>)
    /\ opsLeft' = Spend("file", TRUE)
    /\ UNCHANGED <<config, newPenalty, kegelabende, currentAbend, storage,
                   nextId, savedPlayers, newPlayerName, reads>>

\* the evenings, the configuration and the players of a backup file written
\* on another installation
importedAbende ==
    << [createEmptyKegelabend(101) EXCEPT !.spieler =
            << [newPlayer(102) EXCEPT !.name = "Cleo",
                                      !.strafen = WithCount(<<>>, "kranz", 1)] >>] >>

importedConfig ==
    [startgebuehrChanged(defaultConfig, <<"7">>) EXCEPT !.waehrung = "CHF"]

importedSpieler == << <<"C", "l", "e", "o">> >>

\* the files the user has besides the last export: a whole backup, the
\* same backup tagged with a later format version, files that lack keys, a text that is not JSON, the JSON text null, a file that
\* cannot be read
DrawnFiles ==
    { File("backup.json", TRUE,
           JSONstringify([kegelabende |-> importedAbende,
                          config |-> importedConfig,
                          spieler |-> importedSpieler,
                          exportDatum |-> Now, version |-> "1.0"])),
      File("backup-v2.json", TRUE,
           JSONstringify([kegelabende |-> importedAbende,
                          config |-> importedConfig,
                          spieler |-> importedSpieler,
                          exportDatum |-> Now, version |-> "2.0"])),
      File("config-only.json", TRUE,
           JSONstringify([config |-> importedConfig, version |-> "1.0"])),
      File("evenings-only.json", TRUE,
           JSONstringify([kegelabende |-> importedAbende, version |-> "1.0"])),
      File("broken.json", TRUE, NotJSON),
      File("null.json", TRUE, JSONstringify(Null)),
      File("unreadable.json", FALSE, <<>>) }

\* the files the file input can be given
SelectableFiles ==
    DrawnFiles
    \cup (IF download = <<>> THEN {}
          ELSE {File("kegelbuch_export.json", TRUE, download)})

\* the LocalStorage writes of an import: the three save calls of
\* importFromJSON and the save of the auto-save effect
ImportWrites == {"kegelabende", "config", "spieler", "effect"}

handleImportDone(message, severity) ==
    [open |-> TRUE, message |-> message, severity |-> severity]

\* importSettled whose auto-save effect works on the collection of the last
\* render instead of the imported one
importSettledOverFound(file, oks, fileOps) ==
    LET p == importFromJSON(storage, file, oks)
        failures == Cardinality({k \in ImportWrites : ~oks[k]})
    IN  /\ lastEvent' = Event("handleImport", 0, file.name, <<>>)
        /\ failures <= opsLeft.fail
        /\ opsLeft' = [opsLeft EXCEPT !.file = @ - fileOps, !.fail = @ - failures]
        /\ IF p.rejected
           THEN /\ failures = 0
                /\ snackbar' = handleImportDone("Import fehlgeschlagen!",
                                                "error")
                /\ saved' = <<>>
                /\ UNCHANGED <<config, kegelabende, currentAbend, storage>>
           ELSE LET data == p.data
                    \* data.kegelabende || []
                    imported == IF Truthy(data, "kegelabende")
                                THEN data.kegelabende ELSE <<>>
                    cur == imported[Len(imported)]
                    effect == saveKegelabende(p.store,
                                              autoSaved(kegelabende, cur),
                                              oks.effect)
                IN  /\ \A k \in {"kegelabende", "config", "spieler"} :
                            ~Truthy(data, k) => oks[k]
                    /\ Len(imported) = 0 => oks.effect
                    /\ config' = IF Truthy(data, "config") THEN data.config
                                 ELSE config
                    /\ IF Len(imported) > 0
                       THEN /\ currentAbend' = cur
                            /\ kegelabende' = autoSaved(kegelabende, cur)
                            /\ storage' = effect.store
                            /\ saved' = p.results \o <<effect.result>>
                       ELSE /\ currentAbend' = currentAbend
                            /\ kegelabende' = imported
                            /\ storage' = p.store
                            /\ saved' = p.results
                    /\ snackbar' = handleImportDone("Import erfolgreich!",
                                                    "success")

\* handleImport from the settling of the read on: onload or onerror of
\* importFromJSON, then the rest of handleImport and the auto-save effect
importSettled(file, oks, fileOps) ==
    LET p == importFromJSON(storage, file, oks)
        failures == Cardinality({k \in ImportWrites : ~oks[k]})
    IN  /\ lastEvent' = Event("handleImport", 0, file.name, <<>>)
        /\ failures <= opsLeft.fail
        /\ opsLeft' = [opsLeft EXCEPT !.file = @ - fileOps, !.fail = @ - failures]
        /\ IF p.rejected
           THEN /\ failures = 0
                /\ snackbar' = handleImportDone("Import fehlgeschlagen!",
                                                "error")
                /\ saved' = <<>>
                /\ UNCHANGED <<config, kegelabende, currentAbend, storage>>
           ELSE LET data == p.data
                    \* data.kegelabende || []
                    imported == IF Truthy(data, "kegelabende")
                                THEN data.kegelabende ELSE <<>>
                    cur == imported[Len(imported)]
                    effect == saveKegelabende(p.store,
                                              autoSaved(imported, cur),
                                              oks.effect)
                IN  /\ \A k \in {"kegelabende", "config", "spieler"} :
                            ~Truthy(data, k) => oks[k]
                    /\ Len(imported) = 0 => oks.effect
                    /\ config' = IF Truthy(data, "config") THEN data.config
                                 ELSE config
                    /\ IF Len(imported) > 0
                       THEN /\ currentAbend' = cur
                            /\ kegelabende' = autoSaved(imported, cur)
                            /\ storage' = effect.store
                            /\ saved' = p.results \o <<effect.result>>
                       ELSE /\ currentAbend' = currentAbend
                            /\ kegelabende' = imported
                            /\ storage' = p.store
                            /\ saved' = p.results
                    /\ snackbar' = handleImportDone("Import erfolgreich!",
                                                    "success")

\* handleImport with a read that settles before any other event
HandleImport ==
    /\ opsLeft.file > 0
    /\ \E file \in SelectableFiles, oks \in [ImportWrites -> BOOLEAN] :
            importSettled(file, oks, 1)
    /\ UNCHANGED <<newPenalty, nextId, savedPlayers, download, atExport,
                   newPlayerName, reads>>

\* handleImport up to the await: reader.readAsText(file) is started (the
\* file input fires no change event for the file it already holds)
StartImport ==
    /\ opsLeft.file > 0
    /\ \E file \in SelectableFiles :
        /\ \A r \in reads.pending : r.file # file
        /\ reads' = [reads EXCEPT !.pending =
                        @ \cup {[file |-> file, atStart |-> kegelabende]}]
        /\ lastEvent' = Event("readAsText", 0, file.name, <<>>)
    /\ opsLeft' = Spend("file", TRUE)
    /\ saved' = <<>>
    /\ UNCHANGED <<config, newPenalty, snackbar, kegelabende, currentAbend,
                   storage, nextId, savedPlayers, download, atExport,
                   newPlayerName>>

\* a pending read settles (in any order, after any events): the rest of
\* handleImport runs; kept for the record are the collection when the read
\* was started and the collection the settling found
FinishImport ==
    /\ \E r \in reads.pending, oks \in [ImportWrites -> BOOLEAN] :
        /\ importSettled(r.file, oks, 0)
        /\ reads' = [pending |-> reads.pending \ {r},
                     settled |-> [file |-> r.file, atStart |-> r.atStart,
                                  found |-> kegelabende]]
    /\ UNCHANGED <<newPenalty, nextId, savedPlayers, download, atExport,
                   newPlayerName>>

InitSnapshot ==
    /\ InitOpened
    /\ opsLeft = [config |-> 0, abend |-> 0,
                  fail |-> MaxWriteFailures, file |-> MaxFileOps]

NextSnapshot ==
    \/ Mount
    \/ Mounted /\ HandleExport
    \/ Mounted /\ HandleImport
    \/ Mounted /\ SetNewPlayerName
    \/ Mounted /\ AddSavedPlayer
    \/ Mounted /\ AddSavedPlayerClick
    \/ Mounted /\ RemoveSavedPlayer

SpecSnapshot == InitSnapshot /\ [][NextSnapshot]_vars

\* the price dialog over the evenings of earlier sessions
InitPenalty ==
    /\ InitOpened
    /\ opsLeft = [config |-> MaxPenaltyOps, abend |-> 0, fail |-> 0,
                  file |-> 0]

SpecPenalty == InitPenalty /\ [][NextReload]_vars

\* imports and the table of the evenings in one session
InitSession ==
    /\ InitOpened
    /\ opsLeft = [config |-> 0, abend |-> MaxSessionEveningOps,
                  fail |-> MaxWriteFailures, file |-> MaxSessionFileOps]

NextSession ==
    \/ Mount
    \/ Mounted /\ HandleImport
    \/ Mounted /\ NextAbend

SpecSession == InitSession /\ [][NextSession]_vars

\* imports whose read is pending while the table of the evenings is used
\* (every LocalStorage write succeeds)
InitPending ==
    /\ InitOpened
    /\ opsLeft = [config |-> 0, abend |-> MaxPendingEveningOps, fail |-> 0,
                  file |-> MaxPendingFileOps]

NextPending ==
    \/ Mount
    \/ Mounted /\ StartImport
    \/ Mounted /\ FinishImport
    \/ Mounted /\ NextAbend

SpecPending == InitPending /\ [][NextPending]_vars

\* the player dialog alone
InitPlayers ==
    /\ InitOpened
    /\ opsLeft = [config |-> 0, abend |-> 0,
                  fail |-> MaxWriteFailures, file |-> MaxPlayerOps]

NextPlayers ==
    \/ Mount
    \/ Mounted /\ SetNewPlayerName
    \/ Mounted /\ AddSavedPlayer
    \/ Mounted /\ AddSavedPlayerClick
    \/ Mounted /\ RemoveSavedPlayer

SpecPlayers == InitPlayers /\ [][NextPlayers]_vars

----------------------------------------------------------------------------
(* The price dialog alone, with failing LocalStorage writes *)

InitConfig ==
    /\ config = defaultConfig
    /\ newPenalty = emptyNewPenalty
    /\ snackbar = closedSnackbar
    /\ kegelabende = <<>>
    /\ currentAbend = Null
    /\ storage = emptyStorage
    /\ nextId = 1
    /\ lastEvent = Event("mount", 0, "", <<>>)
    /\ opsLeft = [config |-> MaxSettingsOps, abend |-> 0,
                  fail |-> MaxWriteFailures, file |-> 0]
    /\ savedPlayers = <<>>
    /\ download = <<>>
    /\ atExport = Null
    /\ saved = <<>>
    /\ newPlayerName = <<>>
    /\ reads = noReads

SpecConfig == InitConfig /\ [][NextConfig]_vars

----------------------------------------------------------------------------
(* The settlement over drawn rosters and configurations: the table of one *)
(* evening, entered before, under a configuration edited before           *)

\* the penalty columns that carry counts in a drawn roster
DrawnStrafen == {"kalle", "kranz"}

\* the counts of one drawn player: nothing entered, or a count per column
DrawnCounts == {<<>>} \cup [DrawnStrafen -> 0..MaxCount]

\* the configurations: shipped, entry fee cleared, a price edited, an
\* inverted penalty added
DrawnConfigs ==
    { defaultConfig,
      startgebuehrChanged(defaultConfig, <<>>),
      priceChanged(defaultConfig, "kranz", <<"1", ".", "5">>),
      penaltyAdded(defaultConfig,
                   [emptyNewPenalty EXCEPT
                        !.label = <<"A", "l", "l", "e", " ", "9">>,
                        !.inverted = TRUE]) }

\* the evening with id 1 and players 2..n+1 carrying the counts cs[1..n]
drawnAbend(cs) ==
    [createEmptyKegelabend(1) EXCEPT !.spieler =
        [i \in 1..Len(cs) |-> [newPlayer(i + 1) EXCEPT !.strafen = cs[i]]]]

InitTotals ==
    /\ config \in DrawnConfigs
    /\ newPenalty = emptyNewPenalty
    /\ snackbar = closedSnackbar
    /\ \E n \in 0..MaxRoster : \E cs \in [1..n -> DrawnCounts] :
        /\ currentAbend = drawnAbend(cs)
        /\ kegelabende = <<drawnAbend(cs)>>
        /\ storage = [config |-> JSONstringify(config),
                      kegelabende |-> JSONstringify(kegelabende),
                      spieler |-> <<>>]
        /\ nextId = n + 2
    /\ lastEvent = Event("mount", 0, "", <<>>)
    /\ opsLeft = [config |-> 0, abend |-> 0, fail |-> 0, file |-> 0]
    /\ savedPlayers = <<>>
    /\ download = <<>>
    /\ atExport = Null
    /\ saved = <<>>
    /\ newPlayerName = <<>>
    /\ reads = noReads

\* handleStrafeChange with the count of a cell raised by one
StepUpCount ==
    /\ \E i \in 1..Len(currentAbend.spieler),
          strafeId \in DrawnStrafen \cap StrafeIds(config) :
        /\ CountOf(currentAbend.spieler[i], strafeId) < MaxCount
        /\ \E value \in StepUp(currentAbend.spieler[i], strafeId) :
            /\ SetCurrentAbend(
                    handleStrafeChange(currentAbend, currentAbend.spieler[i].id,
                                       strafeId, value), TRUE)
            /\ lastEvent' = Event("handleStrafeChange", currentAbend.spieler[i].id,
                                  strafeId, value)
    /\ UNCHANGED <<config, newPenalty, snackbar, nextId, opsLeft, fileVars>>

SpecTotals == InitTotals /\ [][StepUpCount]_vars

----------------------------------------------------------------------------
(* Properties of the settlement *)

RECURSIVE Sum(_, _)
\* the sum of f over the finite set S of its domain
Sum(f, S) ==
    IF S = {} THEN 0
    ELSE LET x == CHOOSE y \in S : TRUE IN f[x] + Sum(f, S \ {x})

Roster == currentAbend.spieler

PlayerIndex(abend, playerId) ==
    CHOOSE i \in 1..Len(abend.spieler) : abend.spieler[i].id = playerId

StrafeIndex(cfg, strafeId) ==
    CHOOSE k \in 1..Len(cfg.strafen) : cfg.strafen[k].id = strafeId

\* the counts for a penalty of all players of the roster but player i
OthersCount(spieler, i, strafeId) ==
    Sum([j \in 1..Len(spieler) |-> CountOf(spieler[j], strafeId)],
        {j \in 1..Len(spieler) : spieler[j].id # spieler[i].id})

\* what player i owes by the settlement rule: entry fee, own normal
\* penalties, the others' inverted penalties
SettlementOwed(spieler, i, cfg) ==
    cfg.startgebuehr
    + Sum([k \in 1..Len(cfg.strafen) |->
              IF IsInverted(cfg.strafen[k])
              THEN OthersCount(spieler, i, cfg.strafen[k].id) * cfg.strafen[k].preis
              ELSE CountOf(spieler[i], cfg.strafen[k].id) * cfg.strafen[k].preis],
          1..Len(cfg.strafen))

\* C1: the total computed for every player of the roster is the entry fee
\* plus count x unitPrice of the player's own normal penalties plus, for
\* every inverted penalty, the counts of the other players x unitPrice
\* (entry fee 6.0, kalle and kranz 0.5: A with kalle 2, kranz 1 owes 7.0 and
\* B without counts owes 6.5).
C1_TotalFollowsSettlementRule ==
    currentAbend # Null =>
        \A i \in 1..Len(Roster) :
            calculatePlayerTotal(Roster[i], config)
                = SettlementOwed(Roster, i, config)

\* a step that raises by one the count of one player for one penalty
RaisedByOne ==
    /\ lastEvent'.handler = "handleStrafeChange"
    /\ lastEvent'.strafeId \in StrafeIds(config)
    /\ LET i == PlayerIndex(currentAbend, lastEvent'.id)
       IN  /\ lastEvent'.raw = FormatInt(CountOf(Roster[i], lastEvent'.strafeId) + 1)
           /\ CountOf(currentAbend'.spieler[i], lastEvent'.strafeId)
                = CountOf(Roster[i], lastEvent'.strafeId) + 1

RaisedStrafe == config.strafen[StrafeIndex(config, lastEvent'.strafeId)]

\* C2: raising one player's count for an inverted penalty by one leaves
\* that player's own total unchanged and raises the total of every other
\* player of the roster by the penalty's unitPrice (so the single player of
\* a roster of size 1 never pays for the own inverted penalties).
C2_InvertedRaiseChargesOthers ==
    [][ (RaisedByOne /\ IsInverted(RaisedStrafe)) =>
            \A j \in 1..Len(Roster) :
                calculatePlayerTotal(currentAbend'.spieler[j], config')
                    = calculatePlayerTotal(Roster[j], config)
                      + (IF Roster[j].id = lastEvent'.id THEN 0
                         ELSE RaisedStrafe.preis) ]_vars

\* C3: the grand total of the evening is the sum of the totals of all
\* players of the roster, and 0 for an evening without players.
C3_GrandTotalIsSumOfTotals ==
    currentAbend # Null =>
        /\ grandTotal(currentAbend, config)
            = Sum([i \in 1..Len(Roster) |-> calculatePlayerTotal(Roster[i], config)],
                  1..Len(Roster))
        /\ Len(Roster) = 0 => grandTotal(currentAbend, config) = 0

\* two players, both with counts after a count was entered: the grand
\* total covers both
C3_Witness ==
    /\ currentAbend # Null
    /\ lastEvent.handler = "handleStrafeChange"
    /\ Len(Roster) = 2
    /\ CountOf(Roster[1], "kalle") = 2
    /\ CountOf(Roster[2], "kranz") = 1
    /\ grandTotal(currentAbend, config)
        = calculatePlayerTotal(Roster[1], config) + calculatePlayerTotal(Roster[2], config)

\* what a penalty definition adds to the grand total of the evening
ShareOfGrandTotal(abend, cfg, strafeId) ==
    grandTotal(abend, cfg) - grandTotal(abend, penaltyRemoved(cfg, strafeId))

\* C4: an inverted penalty incurred `count` times by one player of a roster
\* of N players adds unitPrice x count x (N - 1) to the grand total: nothing
\* when N = 1, twice unitPrice x count when N = 3.
C4_InvertedShareOfGrandTotal ==
    currentAbend # Null =>
        \A k \in 1..Len(config.strafen) : \A i \in 1..Len(Roster) :
            ( /\ IsInverted(config.strafen[k])
              /\ \A j \in 1..Len(Roster) :
                    j # i => CountOf(Roster[j], config.strafen[k].id) = 0 )
            => ShareOfGrandTotal(currentAbend, config, config.strafen[k].id)
                = config.strafen[k].preis
                  * CountOf(Roster[i], config.strafen[k].id)
                  * (Len(Roster) - 1)

\* C5: raising a player's count for a normal (not inverted) penalty by one
\* raises that player's total by exactly the penalty's unitPrice and leaves
\* the total of every other player of the roster unchanged.
C5_NormalRaiseChargesPlayer ==
    [][ (RaisedByOne /\ ~IsInverted(RaisedStrafe)) =>
            \A j \in 1..Len(Roster) :
                calculatePlayerTotal(currentAbend'.spieler[j], config')
                    = calculatePlayerTotal(Roster[j], config)
                      + (IF Roster[j].id = lastEvent'.id THEN RaisedStrafe.preis
                         ELSE 0) ]_vars

\* a normal penalty was raised from 1 to 2 in a roster of two players
C5_Witness ==
    /\ lastEvent.handler = "handleStrafeChange"
    /\ lastEvent.strafeId = "kalle"
    /\ lastEvent.raw = <<"2">>
    /\ Len(Roster) = 2
    /\ CountOf(Roster[PlayerIndex(currentAbend, lastEvent.id)], "kalle") = 2

----------------------------------------------------------------------------
(* Properties of the stored numbers *)

\* the evenings of the application: the collection and the current one
Abende ==
    {kegelabende[i] : i \in 1..Len(kegelabende)}
    \cup (IF currentAbend = Null THEN {} ELSE {currentAbend})

\* C6: after setPenaltyCount with any raw text the stored count is a
\* non-negative integer (the parsed integer of a non-negative integer
\* string, 0 for non-numeric, empty or negative text such as "-3"), so every
\* stored penalty count of every reachable state is non-negative.
C6_CountsNonNegative ==
    \A abend \in Abende : \A i \in 1..Len(abend.spieler) :
        \A k \in DOMAIN abend.spieler[i].strafen :
            abend.spieler[i].strafen[k] >= 0

\* C7: whatever penalty counts, prices, entry fee and penalties were
\* entered, the total of every player of every evening is non-negative.
C7_TotalsNonNegative ==
    \A abend \in Abende : \A i \in 1..Len(abend.spieler) :
        calculatePlayerTotal(abend.spieler[i], config) >= 0

\* C8: whatever raw text setEntryFee, setPenaltyPrice and addPenalty were
\* given (negative numbers included), the entry fee and the unitPrice of
\* every penalty definition are non-negative.
C8_PricesNonNegative ==
    /\ config.startgebuehr >= 0
    /\ \A k \in 1..Len(config.strafen) : config.strafen[k].preis >= 0

\* the text holds no digit: it does not parse as a number
IsNotNumeric(raw) == \A i \in 1..Len(raw) : ~IsDigit(raw[i])

\* the text is a plain non-negative decimal: digits with at most one "."
IsPlainDecimal(raw) ==
    /\ \E i \in 1..Len(raw) : IsDigit(raw[i])
    /\ \A i \in 1..Len(raw) : IsDigit(raw[i]) \/ raw[i] = "."
    /\ Cardinality({i \in 1..Len(raw) : raw[i] = "."}) <= 1

\* the amount a plain decimal denotes, in cents
PlainDecimalCents(raw) ==
    LET dots == {i \in 1..Len(raw) : raw[i] = "."}
        dot  == IF dots = {} THEN Len(raw) + 1 ELSE CHOOSE i \in dots : TRUE
    IN  DigitsValue(SubSeq(raw, 1, dot - 1)) * 100
        + CentsOf(SubSeq(raw, dot + 1, Len(raw)))

\* the amount the policy stores for a raw text: 0 for text that is no
\* number, the number for a non-negative number
StoredFor(raw, stored) ==
    /\ IsNotNumeric(raw) => stored = 0
    /\ IsPlainDecimal(raw) => stored = PlainDecimalCents(raw)

\* C9: setEntryFee(raw) and setPenaltyPrice(id, raw) store 0 when raw does
\* not parse as a number ("abc", the empty string) and raise no error; they
\* store the number when raw parses as a non-negative number.
C9_InvalidPriceStoresZero ==
    [][ /\ lastEvent'.handler = "handleStartgebuehrChange" =>
            /\ StoredFor(lastEvent'.raw, config'.startgebuehr)
            /\ snackbar' = snackbar
        /\ ( /\ lastEvent'.handler = "handlePriceChange"
             /\ lastEvent'.strafeId \in StrafeIds(config') ) =>
            /\ StoredFor(lastEvent'.raw,
                         config'.strafen[StrafeIndex(config', lastEvent'.strafeId)].preis)
            /\ snackbar' = snackbar ]_vars

\* "abc" was entered as entry fee over the edited fee 1.5, and 0 is stored
C9_Witness ==
    /\ lastEvent.handler = "handleStartgebuehrChange"
    /\ lastEvent.raw = <<"a", "b", "c">>
    /\ config.startgebuehr = 0
    /\ \E k \in 1..Len(config.strafen) : config.strafen[k].preis = 150

PairwiseDistinctIds(cfg) ==
    \A i, j \in 1..Len(cfg.strafen) :
        cfg.strafen[i].id = cfg.strafen[j].id => i = j

\* C10: addPenalty with a label whose derived id is the id of a penalty of
\* the configuration leaves the in-memory and the persisted configuration
\* unchanged and reports the failure; so after any addPenalty, removePenalty
\* and setPenaltyPrice from the shipped defaults the ids of the penalties
\* are pairwise distinct.
C10_DuplicateIdRejected ==
    [][ /\ PairwiseDistinctIds(config')
        /\ ( /\ lastEvent'.handler = "handleAddPenalty"
             /\ ~IsBlank(newPenalty.label)
             /\ DeriveId(newPenalty.label) \in StrafeIds(config) )
           => /\ config' = config
              /\ storage' = storage
              /\ snackbar'.open
              /\ snackbar'.severity = "error" ]_vars

\* "alle  9!" was rejected after "Alle 9" had been added as alle_9
C10_Witness ==
    /\ lastEvent.handler = "handleAddPenalty"
    /\ lastEvent.raw = <<"a", "l", "l", "e", " ", " ", "9", "!">>
    /\ snackbar.severity = "error"
    /\ Len(config.strafen) = Len(defaultConfig.strafen) + 1
    /\ config.strafen[Len(config.strafen)].id = "alle_9"
    /\ config.strafen[Len(config.strafen)].label = "Alle 9"

----------------------------------------------------------------------------
(* Properties of the configuration mutations *)

\* cfgAfter is cfgBefore but for the penalties
OnlyStrafenChanged(cfgBefore, cfgAfter) ==
    cfgAfter = [cfgBefore EXCEPT !.strafen = cfgAfter.strafen]

\* the step is a call of the handler that reached the setConfig / saveConfig
Mutated(handler) ==
    /\ lastEvent'.handler = handler
    /\ saved' # <<>>

\* C11: each configuration mutation changes only its target.  setEntryFee
\* changes only the entry fee; setPenaltyPrice(id, v) changes only the
\* unitPrice of the penalty with that id, and nothing when no penalty has
\* that id; removePenalty(id) removes only the penalty with that id, and
\* nothing when it is absent; addPenalty appends at the end; the order of
\* the other penalties, the game types and the currency are never changed.
C11_MutationsChangeOnlyTarget ==
    [][ /\ config'.spielarten = config.spielarten
        /\ config'.waehrung = config.waehrung
        /\ Mutated("handleStartgebuehrChange") =>
                config' = [config EXCEPT !.startgebuehr = config'.startgebuehr]
        /\ Mutated("handlePriceChange") =>
            /\ OnlyStrafenChanged(config, config')
            /\ Len(config'.strafen) = Len(config.strafen)
            /\ \A k \in 1..Len(config.strafen) :
                    config'.strafen[k]
                        = IF config.strafen[k].id = lastEvent'.strafeId
                          THEN [config.strafen[k] EXCEPT
                                    !.preis = config'.strafen[k].preis]
                          ELSE config.strafen[k]
            /\ lastEvent'.strafeId \notin StrafeIds(config) => config' = config
        /\ Mutated("handleRemovePenalty") =>
            /\ OnlyStrafenChanged(config, config')
            /\ config'.strafen
                    = SelectSeq(config.strafen,
                                LAMBDA st : st.id # lastEvent'.strafeId)
            /\ lastEvent'.strafeId \notin StrafeIds(config) => config' = config
        /\ Mutated("handleAddPenalty") =>
            /\ OnlyStrafenChanged(config, config')
            /\ Len(config'.strafen) = Len(config.strafen) + 1
            /\ SubSeq(config'.strafen, 1, Len(config.strafen)) = config.strafen
            /\ config'.strafen[Len(config'.strafen)].id
                    = DeriveId(lastEvent'.raw) ]_vars

\* the price of a row that is not in the configuration was set after kranz
\* had been removed: five penalties in the shipped order, shipped prices
C11_Witness ==
    /\ lastEvent.handler = "handlePriceChange"
    /\ lastEvent.strafeId = "kranz"
    /\ lastEvent.raw = <<"1", ".", "5">>
    /\ config.strafen
        = SelectSeq(defaultConfig.strafen, LAMBDA st : st.id # "kranz")
    /\ config.startgebuehr = defaultConfig.startgebuehr

\* C12: after each configuration mutation (setEntryFee, setPenaltyPrice, an
\* addPenalty that succeeds, removePenalty) whose storage write succeeds, the
\* persisted configuration is the whole in-memory configuration including
\* the mutation.
C12_MutationPersistsWholeConfig ==
    [][ \A handler \in {"handleStartgebuehrChange", "handlePriceChange",
                        "handleAddPenalty", "handleRemovePenalty"} :
            (Mutated(handler) /\ saved' = <<TRUE>>) =>
                storage'.config = JSONstringify(config') ]_vars

\* a price was set and written after an entry fee of 1.5 had been set and
\* a write had failed: the persisted configuration carries fee and price
C12_Witness ==
    /\ lastEvent.handler = "handlePriceChange"
    /\ saved = <<TRUE>>
    /\ opsLeft.fail < MaxWriteFailures
    /\ config.startgebuehr = 150
    /\ storage.config = JSONstringify(config)
    /\ \E k \in 1..Len(config.strafen) : config.strafen[k].preis = 150

----------------------------------------------------------------------------
(* Properties of the start of the page *)

\* C13: a penalty unit price edited with setPenaltyPrice and written to
\* storage is still the unit price of that penalty after the page is
\* reloaded: the merge with the shipped defaults at load time does not
\* clobber price edits.
C13_PriceEditSurvivesRestart ==
    [][ ( /\ lastEvent'.handler = "mount"
          /\ lastEvent.handler = "handlePriceChange"
          /\ saved = <<TRUE>>
          /\ lastEvent.strafeId \in StrafeIds(config) )
        => /\ lastEvent.strafeId \in StrafeIds(config')
           /\ config'.strafen[StrafeIndex(config', lastEvent.strafeId)].preis
                = config.strafen[StrafeIndex(config, lastEvent.strafeId)].preis
      ]_vars

\* the configuration a load finds: the persisted one, the shipped defaults
\* when there is none
PersistedOrDefault ==
    IF Len(storage.config) = 1 THEN storage.config[1] ELSE defaultConfig

\* C14: on every load the in-memory configuration takes entry fee and
\* currency from the persisted configuration (from the shipped defaults
\* when nothing is persisted) and penalties and game types from the shipped
\* defaults; a custom penalty added with addPenalty before the reload is
\* absent after it.
C14_LoadMergesShippedDefaults ==
    [][ lastEvent'.handler = "mount" =>
            /\ config'.startgebuehr = PersistedOrDefault.startgebuehr
            /\ config'.waehrung = PersistedOrDefault.waehrung
            /\ config'.strafen = defaultConfig.strafen
            /\ config'.spielarten = defaultConfig.spielarten
            /\ \A id \in StrafeIds(PersistedOrDefault) \cup StrafeIds(config) :
                    id \notin StrafeIds(defaultConfig) => id \notin StrafeIds(config')
      ]_vars

\* the page was reloaded after "Alle 9" had been added and persisted: the
\* persisted configuration carries alle_9, the in-memory one does not
C14_Witness ==
    /\ lastEvent.handler = "mount"
    /\ opsLeft.file < MaxReloads
    /\ Len(storage.config) = 1
    /\ "alle_9" \in StrafeIds(storage.config[1])
    /\ "alle_9" \notin StrafeIds(config)
    /\ config.startgebuehr = storage.config[1].startgebuehr

----------------------------------------------------------------------------
(* Properties of export and import *)

\* the step is a call of handleImport; the file it was given, and the data
\* of that file
Imports == lastEvent'.handler = "handleImport"

ImportedFile == CHOOSE f \in SelectableFiles : f.name = lastEvent'.strafeId

ImportedData == JSONparse(ImportedFile.text).value[1]

ImportSucceeds == Imports /\ snackbar'.severity = "success"

\* C15: after a successful importSnapshot of a document that lacks one of
\* the keys evenings, configuration, savedPlayers, the corresponding store
\* is unchanged in memory and in persistent storage.
C15_ImportLeavesAbsentKeys ==
    [][ ImportSucceeds =>
            /\ "kegelabende" \notin DOMAIN ImportedData =>
                    /\ kegelabende' = kegelabende
                    /\ storage'.kegelabende = storage.kegelabende
            /\ "config" \notin DOMAIN ImportedData =>
                    /\ config' = config
                    /\ storage'.config = storage.config
            /\ "spieler" \notin DOMAIN ImportedData =>
                    /\ savedPlayers' = savedPlayers
                    /\ storage'.spieler = storage.spieler ]_vars

\* C16: after a successful importSnapshot, for each of the keys evenings,
\* configuration, savedPlayers present in the document, the persisted store
\* and the in-memory store equal the document's value (stated for imports
\* all of whose writes succeed).
C16_ImportOverwritesPresentKeys ==
    [][ ( /\ ImportSucceeds
          /\ \A i \in 1..Len(saved') : saved'[i] )
        => /\ Truthy(ImportedData, "kegelabende") =>
                /\ kegelabende' = ImportedData.kegelabende
                /\ storage'.kegelabende = JSONstringify(ImportedData.kegelabende)
           /\ Truthy(ImportedData, "config") =>
                /\ config' = ImportedData.config
                /\ storage'.config = JSONstringify(ImportedData.config)
           /\ Truthy(ImportedData, "spieler") =>
                /\ savedPlayers' = ImportedData.spieler
                /\ storage'.spieler = JSONstringify(ImportedData.spieler) ]_vars

\* configuration, evenings, current evening, player list and LocalStorage
\* are as before the step
NothingImported ==
    /\ config' = config
    /\ kegelabende' = kegelabende
    /\ currentAbend' = currentAbend
    /\ savedPlayers' = savedPlayers
    /\ storage' = storage

\* C17: when importSnapshot fails (the file cannot be read, or its text is
\* not valid serialized data) the in-memory configuration, evenings, current
\* evening and player list and the three persisted stores are as before, and
\* a failure notification is shown instead of the success notification; no
\* import ends without one of the two notifications.
C17_FailedImportChangesNothing ==
    [][ /\ ( /\ Imports
             /\ ~ImportedFile.readable \/ JSONparse(ImportedFile.text).threw )
           => /\ NothingImported
              /\ snackbar'.open
              /\ snackbar'.severity = "error"
        /\ (Imports /\ ~ImportSucceeds)
           => /\ NothingImported
              /\ snackbar'.open
              /\ snackbar'.severity = "error" ]_vars

\* the import of a text that is not JSON was refused over the evenings and
\* players of an earlier session
C17_Witness ==
    /\ lastEvent.handler = "handleImport"
    /\ lastEvent.strafeId = "broken.json"
    /\ snackbar.severity = "error"
    /\ Len(kegelabende) = 2
    /\ savedPlayers # <<>>
    /\ storage.kegelabende = JSONstringify(kegelabende)

\* C18: round trip: importing the file of an export (possibly after
\* further changes) restores a configuration, an evening collection and a
\* player list equal to the in-memory ones at the time of the export.
C18_ExportImportRoundTrip ==
    [][ (ImportSucceeds /\ lastEvent'.strafeId = "kegelbuch_export.json")
        => /\ config' = atExport.config
           /\ kegelabende' = atExport.kegelabende
           /\ savedPlayers' = atExport.savedPlayers ]_vars

----------------------------------------------------------------------------
(* Properties of the persistence of the evenings *)

\* the evening a handler call hands to setCurrentAbend
MutatedAbend(ev) ==
    CASE ev.handler = "handleNewAbend" -> createEmptyKegelabend(ev.id)
      [] ev.handler = "selectAbend" ->
            kegelabende[CHOOSE i \in 1..Len(kegelabende) :
                            kegelabende[i].id = ev.id]
      [] ev.handler = "handleUpdateAbend" -> datumChanged(currentAbend, ev.raw)
      [] ev.handler = "addPlayer" -> addPlayer(currentAbend, ev.id)
      [] ev.handler = "removePlayer" -> removePlayer(currentAbend, ev.id)
      [] ev.handler = "handlePlayerChange" ->
            handlePlayerChange(currentAbend, ev.id, ev.raw)
      [] ev.handler = "handleStrafeChange" ->
            handleStrafeChange(currentAbend, ev.id, ev.strafeId, ev.raw)
      [] ev.handler = "handleSpielChange" ->
            handleSpielChange(currentAbend, ev.id, ev.strafeId, ev.raw)

EveningHandlers ==
    {"handleNewAbend", "selectAbend", "handleUpdateAbend", "addPlayer",
     "removePlayer", "handlePlayerChange", "handleStrafeChange",
     "handleSpielChange"}

\* the in-memory collection holds the mutated evening in the place of the
\* evening with its id (at the end when it is new), all others as before
HoldsMutation ==
    /\ currentAbend' = MutatedAbend(lastEvent')
    /\ \E i \in 1..Len(kegelabende') :
        /\ kegelabende'[i] = currentAbend'
        /\ \A j \in 1..Len(kegelabende) :
                kegelabende[j].id # currentAbend'.id
                    => /\ j # i
                       /\ kegelabende'[j] = kegelabende[j]
    /\ Len(kegelabende') \in {Len(kegelabende), Len(kegelabende) + 1}

\* C19: every mutation of an evening (creation, date edit, add or remove
\* player, name, penalty count, game result) is followed by a full persist
\* of the evening collection: when the write succeeds the persisted
\* collection is the whole in-memory collection including the mutation.
C19_EveningMutationPersistsCollection ==
    [][ (lastEvent'.handler \in EveningHandlers /\ saved' = <<TRUE>>)
        => /\ HoldsMutation
           /\ storage'.kegelabende = JSONstringify(kegelabende') ]_vars

\* a game result was entered and written after an earlier write had failed:
\* the persisted collection is the in-memory one, both evenings
C19_Witness ==
    /\ lastEvent.handler = "handleSpielChange"
    /\ saved = <<TRUE>>
    /\ opsLeft.fail < MaxWriteFailures
    /\ Len(kegelabende) = 2
    /\ storage.kegelabende = JSONstringify(kegelabende)
    /\ \E i \in 1..Len(currentAbend.spieler) :
            "wm" \in DOMAIN currentAbend.spieler[i].spiele

\* the item of a key is missing or is not JSON
NothingToLoad(key) == Len(storage[key]) # 1

\* C20: the persistence boundary never throws.  A failing write makes the
\* save return false (and leaves LocalStorage as it was); a missing or
\* unparseable item makes the load return the default (shipped
\* configuration, no evenings, no saved players); after a failed write the
\* in-memory model holds the mutated state, neither rolled back nor
\* corrupted.
C20_PersistenceNeverThrows ==
    [][ /\ saved' \in {<<>>, <<TRUE>>, <<FALSE>>}
        /\ saved' = <<FALSE>> <=> opsLeft'.fail < opsLeft.fail
        /\ saved' = <<FALSE>> => storage' = storage
        /\ lastEvent'.handler = "mount" =>
            /\ NothingToLoad("config") => config' = defaultConfig
            /\ NothingToLoad("kegelabende") =>
                    kegelabende' = <<>> /\ currentAbend' = Null
            /\ NothingToLoad("spieler") => savedPlayers' = <<>>
        /\ (lastEvent'.handler \in EveningHandlers /\ saved' = <<FALSE>>)
            => HoldsMutation ]_vars

\* the page was opened over items that are not JSON and a new evening was
\* created whose write failed: shipped configuration, the evening in
\* memory, LocalStorage as it was
C20_Witness ==
    /\ lastEvent.handler = "handleNewAbend"
    /\ saved = <<FALSE>>
    /\ storage.kegelabende = NotJSON
    /\ storage.config = NotJSON
    /\ config = defaultConfig
    /\ Len(kegelabende) = 1
    /\ currentAbend = kegelabende[1]

----------------------------------------------------------------------------
(* Properties of the format version *)

\* the keys of the document exportToJSON writes
SnapshotKeys == {"kegelabende", "config", "spieler", "exportDatum", "version"}

\* the file with its document tagged with another format version
Reversioned(file, version) ==
    [file EXCEPT !.text =
        JSONstringify([JSONparse(file.text).value[1] EXCEPT !.version = version])]

\* the last handler was a successful import; the document it applied
Imported == lastEvent.handler = "handleImport" /\ snackbar.severity = "success"

LastImportedData ==
    JSONparse((CHOOSE f \in SelectableFiles : f.name = lastEvent.strafeId).text).value[1]

\* C21: every exported snapshot carries the keys evenings, configuration,
\* savedPlayers, exportTimestamp and formatVersion; import applies a document
\* the same way whatever its formatVersion; and the formatVersion of an
\* imported document is the one the next export emits.
C21_FormatVersionPreserved ==
    [][ /\ lastEvent'.handler = "handleExport" =>
            /\ Len(download') = 1
            /\ DOMAIN download'[1] = SnapshotKeys
        /\ (ImportSucceeds /\ "version" \in DOMAIN ImportedData) =>
            \A version \in {"1.0", "2.0", "x"}, oks \in [ImportWrites -> BOOLEAN] :
                LET p == importFromJSON(storage, ImportedFile, oks)
                    q == importFromJSON(storage, Reversioned(ImportedFile, version), oks)
                IN  /\ q.rejected = p.rejected
                    /\ q.results = p.results
                    /\ \A k \in SnapshotKeys \ {"version"} :
                            /\ k \in DOMAIN q.data <=> k \in DOMAIN p.data
                            /\ k \in DOMAIN p.data => q.data[k] = p.data[k]
                    /\ q.store = p.store
        /\ ( /\ Imported
             /\ "version" \in DOMAIN LastImportedData
             /\ lastEvent'.handler = "handleExport" ) =>
            download'[1].version = LastImportedData.version ]_vars

\* without the re-emission of the imported formatVersion: the keys of
\* the export and the import that does not read the formatVersion
ExportKeysAndVersionUnread ==
    [][ /\ lastEvent'.handler = "handleExport" =>
            /\ Len(download') = 1
            /\ DOMAIN download'[1] = SnapshotKeys
        /\ (ImportSucceeds /\ "version" \in DOMAIN ImportedData) =>
            \A version \in {"1.0", "2.0", "x"}, oks \in [ImportWrites -> BOOLEAN] :
                importFromJSON(storage, Reversioned(ImportedFile, version), oks).store
                    = importFromJSON(storage, ImportedFile, oks).store ]_vars

----------------------------------------------------------------------------
(* Properties of the roster mutations *)

\* ids no player of a roster carries
AbsentIds == {0}

\* the map after is the map before but for the entry of key
OnlyEntryChanged(before, after, key) ==
    /\ DOMAIN after = DOMAIN before \cup {key}
    /\ \A k \in DOMAIN before : k # key => after[k] = before[k]

\* the roster after the step is the roster before it but for the player
\* with the id of the call, who differs by Change(before, after) only
OnlyPlayerChanged(Change(_, _)) ==
    /\ currentAbend' = [currentAbend EXCEPT !.spieler = currentAbend'.spieler]
    /\ Len(currentAbend'.spieler) = Len(Roster)
    /\ \A j \in 1..Len(Roster) :
            IF Roster[j].id = lastEvent'.id
            THEN Change(Roster[j], currentAbend'.spieler[j])
            ELSE currentAbend'.spieler[j] = Roster[j]

----------------------------------------------------------------------------
(* Properties of the collection of evenings *)

AbendIds(abende) == {abende[i].id : i \in 1..Len(abende)}

DistinctAbendIds(abende) ==
    \A i, j \in 1..Len(abende) : abende[i].id = abende[j].id => i = j

\* C23: handleNewAbend yields an evening with empty roster, empty notes,
\* not closed, and an id no evening of the collection carries; it is
\* appended as exactly one entry at the end of the collection and is the
\* current evening; so after every create, select and edit no two evenings
\* of the collection share an id.
C23_NewAbendFreshAndAppended ==
    [][ /\ lastEvent'.handler = "handleNewAbend" =>
            /\ currentAbend' = [id |-> lastEvent'.id, datum |-> Today,
                                spieler |-> <<>>, notizen |-> "",
                                abgeschlossen |-> FALSE]
            /\ currentAbend'.id \notin AbendIds(kegelabende)
            /\ kegelabende' = Append(kegelabende, currentAbend')
        /\ DistinctAbendIds(kegelabende') ]_vars

\* a third evening was created over the two of an earlier session, after
\* the first one had been selected
C23_Witness ==
    /\ lastEvent.handler = "handleNewAbend"
    /\ Len(kegelabende) = 3
    /\ currentAbend = kegelabende[3]
    /\ currentAbend.spieler = <<>>
    /\ AbendIds(kegelabende) = {1, 2, currentAbend.id}
    /\ opsLeft.abend = MaxEveningOps - 2

\* C24: whenever a current evening is shown, also right after the start of
\* the page that follows create, select and edit operations, the current
\* evening is the one that was created, selected or edited last.
C24_CurrentIsLastTouched ==
    [][ /\ lastEvent'.handler \in EveningHandlers =>
                currentAbend' = MutatedAbend(lastEvent')
        /\ ( /\ lastEvent'.handler = "mount"
             /\ lastEvent.handler \in EveningHandlers
             /\ currentAbend' # Null )
           => currentAbend'.id = currentAbend.id ]_vars

----------------------------------------------------------------------------
(* Properties of the player list *)

\* the names are non-empty, trimmed, and strictly ascending (so no name
\* occurs twice)
IsSortedSet(names) ==
    /\ \A i \in 1..Len(names) : names[i] # <<>> /\ Trim(names[i]) = names[i]
    /\ \A i \in 1..Len(names) - 1 : StringLess(names[i], names[i + 1])

PlayerListCall == lastEvent'.handler \in {"addSavedPlayer", "removeSavedPlayer"}

C30_BothTriggersAdd ==
    [][ ( /\ lastEvent'.handler = "addSavedPlayer"
          /\ lastEvent'.strafeId \in {"Enter", "click"}
          /\ ~IsBlank(newPlayerName)
          /\ ~Includes(savedPlayers, Trim(newPlayerName)) )
        => /\ Includes(savedPlayers', Trim(newPlayerName))
           /\ Len(savedPlayers') = Len(savedPlayers) + 1
           /\ saved' # <<>>
           /\ saved' = <<TRUE>> => storage'.spieler = JSONstringify(savedPlayers')
           /\ newPlayerName' = <<>> ]_vars

\* the Enter trigger alone adds, persists and clears
EnterAdds ==
    [][ ( /\ lastEvent'.handler = "addSavedPlayer"
          /\ lastEvent'.strafeId = "Enter"
          /\ ~IsBlank(newPlayerName)
          /\ ~Includes(savedPlayers, Trim(newPlayerName)) )
        => /\ Includes(savedPlayers', Trim(newPlayerName))
           /\ saved' # <<>>
           /\ newPlayerName' = <<>> ]_vars

----------------------------------------------------------------------------
(* Properties of the evenings across imports *)

\* the evenings of abende but the one with the given id
Others(abende, id) == SelectSeq(abende, LAMBDA a : a.id # id)

\* every evening of kept is in abende, unchanged and in the same order
KeptIn(kept, abende) ==
    SelectSeq(abende, LAMBDA a : \E i \in 1..Len(kept) : kept[i] = a) = kept

\* C26: no create, select or edit of an evening removes or alters another
\* evening in LocalStorage: after any events, imports included, every
\* evening persisted before the operation whose id is not the current
\* evening's is persisted after it, unchanged and in the same order.
C26_OtherEveningsStayPersisted ==
    [][ lastEvent'.handler \in EveningHandlers =>
            KeptIn(Others(loadKegelabende(storage), currentAbend'.id),
                   loadKegelabende(storage')) ]_vars

\* C27: in every state after an event (startup, create, select, edit,
\* import; state updates and auto-save done) a current evening that is not
\* null is in the in-memory collection: exactly one entry carries its id,
\* and that entry is the current evening.
C27_CurrentInCollection ==
    (Mounted /\ currentAbend # Null) =>
        \E i \in 1..Len(kegelabende) :
            /\ kegelabende[i] = currentAbend
            /\ \A j \in 1..Len(kegelabende) :
                    kegelabende[j].id = currentAbend.id => j = i

----------------------------------------------------------------------------
(* Properties of the penalties over recorded counts *)

\* the player with the counts of the penalties of the configuration only
WithConfiguredCounts(player, cfg) ==
    [player EXCEPT !.strafen =
        [k \in DOMAIN player.strafen \cap StrafeIds(cfg) |-> player.strafen[k]]]

EveningsUntouched ==
    /\ kegelabende' = kegelabende
    /\ currentAbend' = currentAbend
    /\ storage'.kegelabende = storage.kegelabende

\* what the penalty with the id contributes to the total of the player
Contribution(player, cfg, strafeId) ==
    IF strafeId \in StrafeIds(cfg)
    THEN CountOf(player, strafeId) * cfg.strafen[StrafeIndex(cfg, strafeId)].preis
    ELSE 0

\* C29: removing a penalty touches no evening record; every recorded
\* count for its id stays stored but no longer contributes to a total
\* (totals depend only on the counts of the penalties of the
\* configuration); adding a penalty whose derived id is that id makes the
\* stored counts contribute again, at the unit price of the new penalty.
C29_RemovedPenaltyKeepsCounts ==
    [][ /\ Mutated("handleRemovePenalty") =>
            /\ EveningsUntouched
            /\ \A abend \in Abende : \A i \in 1..Len(abend.spieler) :
                    /\ calculatePlayerTotal(abend.spieler[i], config')
                        = calculatePlayerTotal(abend.spieler[i], config)
                          - Contribution(abend.spieler[i], config,
                                         lastEvent'.strafeId)
                    /\ calculatePlayerTotal(abend.spieler[i], config')
                        = calculatePlayerTotal(
                            WithConfiguredCounts(abend.spieler[i], config'),
                            config')
        /\ Mutated("handleAddPenalty") =>
            /\ EveningsUntouched
            /\ \A abend \in Abende : \A i \in 1..Len(abend.spieler) :
                    calculatePlayerTotal(abend.spieler[i], config')
                        = calculatePlayerTotal(abend.spieler[i], config)
                          + CountOf(abend.spieler[i], DeriveId(newPenalty.label))
                            * newPenalty.preis ]_vars

\* kalle was removed and "Kalle" added again at 1.5: Anna's recorded count
\* of 1 is charged at the new price on top of the entry fee of 5
C29_Witness ==
    /\ lastEvent.handler = "handleAddPenalty"
    /\ lastEvent.raw = <<"K", "a", "l", "l", "e">>
    /\ config.strafen[Len(config.strafen)].id = "kalle"
    /\ config.strafen[Len(config.strafen)].preis = 150
    /\ Len(config.strafen) = Len(defaultConfig.strafen)
    /\ currentAbend # Null
    /\ Len(Roster) = 1
    /\ CountOf(Roster[1], "kalle") = 1
    /\ calculatePlayerTotal(Roster[1], config) = 650

----------------------------------------------------------------------------
(* Properties of imports whose read is pending *)

\* the step settles a pending read; the document of its file
Settles == lastEvent'.handler = "handleImport" /\ reads'.pending # reads.pending

SettledData == JSONparse(reads'.settled.file.text).value[1]

PendingFiles(rs) == {r.file : r \in rs.pending}

\* C28: when the current evening is edited while the read of an import is
\* pending and the import then resolves with a document that has an
\* evenings key, the in-memory and the persisted collection both are the
\* imported list of evenings: the edit is neither merged into it nor written
\* over it; and each started import settles exactly once, as success or as
\* failure.
C28_PendingImportWins ==
    [][ /\ ( /\ Settles
             /\ snackbar'.severity = "success"
             /\ Truthy(SettledData, "kegelabende") )
           => /\ kegelabende' = SettledData.kegelabende
              /\ storage'.kegelabende = JSONstringify(SettledData.kegelabende)
        /\ Settles =>
              /\ reads'.settled.file \in PendingFiles(reads)
              /\ PendingFiles(reads') = PendingFiles(reads) \ {reads'.settled.file}
              /\ snackbar'.open
              /\ snackbar'.severity \in {"success", "error"}
              /\ snackbar'.severity = "error"
                    <=> ( \/ ~reads'.settled.file.readable
                          \/ JSONparse(reads'.settled.file.text).threw
                          \/ SettledData = Null )
        /\ (~Settles /\ lastEvent'.handler # "mount")
           => PendingFiles(reads) \subseteq PendingFiles(reads') ]_vars

\* a whole backup was imported whose read was pending while the current
\* evening was edited: collection and LocalStorage hold the backup's evenings
C28_Witness ==
    /\ lastEvent.handler = "handleImport"
    /\ reads.settled # Null
    /\ reads.settled.file.name = "backup.json"
    /\ reads.settled.atStart = earlierAbende
    /\ reads.settled.found # reads.settled.atStart
    /\ kegelabende = importedAbende
    /\ storage.kegelabende = JSONstringify(importedAbende)

=============================================================================
